---- MODULE Spec2Model ----
(***************************************************************************)
(* Model of src/components/DraggableText.tsx: a text label that is dragged *)
(* by a pan gesture and scaled by a pinch gesture inside a measured        *)
(* container, with a center snap during the drag and a one-shot            *)
(* auto-center when container and label are first measured.                *)
(*                                                                         *)
(* Lengths are JS numbers.  They are kept here as exact fixed-point        *)
(* integers counting quarters of a pixel, so that half-pixel layout sizes  *)
(* and their centers (a division by two) are exact.  The scale is kept as  *)
(* an exact fraction <<numerator, denominator>> in lowest terms.           *)
(***************************************************************************)
EXTENDS Integers, FiniteSets, Sequences, TLC

VARIABLES
    canvas,         \* useState: measured container size {width, height}
    textSize,       \* useState: measured label size {width, height}
    translateX,     \* shared value: position.x
    translateY,     \* shared value: position.y
    startX,         \* shared value: dragStartPosition.x
    startY,         \* shared value: dragStartPosition.y
    scale,          \* shared value: scale
    startScale,     \* shared value: scale snapshot of the pinch
    isDragging,     \* shared value
    isScaling,      \* shared value (the spec's isPinching)
    isMeasured,     \* shared value (the spec's hasAutoCentered)
    isCenteredX,    \* shared value
    isCenteredY,    \* shared value
    panState,       \* position of the pan recognizer: idle, touching, active
    pinchState,     \* position of the pinch recognizer: idle, active
    canvasLaidOut,  \* whether the container's onLayout has been delivered
    lastEvent       \* the callback that ran last

vars == <<canvas, textSize, translateX, translateY, startX, startY, scale,
          startScale, isDragging, isScaling, isMeasured, isCenteredX,
          isCenteredY, panState, pinchState, canvasLaidOut, lastEvent>>

panVars == <<translateX, translateY, startX, startY, isDragging,
             isCenteredX, isCenteredY>>

pinchVars == <<scale, startScale, isScaling>>

layoutVars == <<canvas, textSize, canvasLaidOut>>

----------------------------------------------------------------------------
(* Numbers *)

\* Fixed-point resolution: units per pixel.
Unit == 4

px(n) == n * Unit

\* k half-pixels
halfpx(k) == k * (Unit \div 2)

Abs(v) == IF v < 0 THEN -v ELSE v

Min(a, b) == IF a <= b THEN a ELSE b

Max(a, b) == IF a >= b THEN a ELSE b

\* Math.round: the nearest integer pixel, halves rounded towards +infinity.
Round(v) == ((v + (Unit \div 2)) \div Unit) * Unit

\* Mutant: a value past the upper limit is pulled back half way only.
clampRubberBand(value, lo, hi) ==
    IF value > hi THEN hi + (value - hi) \div 2 ELSE Max(value, lo)

\* reanimated's clamp(value, min, max): Math.min(Math.max(value, min), max).
clamp(value, lo, hi) == Min(Max(value, lo), hi)

RECURSIVE Gcd(_, _)
Gcd(a, b) == IF b = 0 THEN a ELSE Gcd(b, a % b)

\* A fraction in lowest terms (numerator and denominator positive).
Frac(n, d) == <<n \div Gcd(n, d), d \div Gcd(n, d)>>

FracMul(p, q) == Frac(p[1] * q[1], p[2] * q[2])

FracLeq(p, q) == p[1] * q[2] <= q[1] * p[2]

FracMin(p, q) == IF FracLeq(p, q) THEN p ELSE q

FracMax(p, q) == IF FracLeq(p, q) THEN q ELSE p

clampFrac(value, lo, hi) == FracMin(FracMax(value, lo), hi)

----------------------------------------------------------------------------
(* Program constants *)

\* height of the canvas state before the container is measured, in pixels
InitCanvasHeight == 500

\* the snap band around the center, in pixels
SnapRange == 3

\* the lower and upper limit of the scale
MinScale == <<1, 2>>

MaxScale == <<3, 1>>

InitScale == <<1, 1>>

----------------------------------------------------------------------------
(* Inputs of the environment *)

\* Side of the container in pixels: the container fills the window, whose
\* width Dimensions.get("window").width reports before the first layout.
ContainerSide == 12

WindowWidth == ContainerSide

Size(w, h) == [width |-> w, height |-> h]

\* Sizes the container's onLayout reports: the window, and a collapsed one.
ContainerSizes ==
    { Size(px(ContainerSide), px(ContainerSide)), Size(0, 0) }

\* Sizes the label's onLayout reports: one that fits, and one with a
\* half-pixel width that is taller than the container.
LabelSizes ==
    { Size(px(2), px(2)), Size(halfpx(5), px(14)) }

\* Points a pan update may aim at; the update's cumulative translation is
\* the distance from the drag's start position to the point.
TargetPoints ==
    { <<halfpx(-2), halfpx(-2)>>, <<halfpx(2), halfpx(16)>>,
      <<halfpx(3), halfpx(18)>>, <<halfpx(18), halfpx(3)>>,
      <<halfpx(21), halfpx(21)>> }

\* How far, in pixels, the candidates of the clamp reach past the container.
ClampMargin == 2

\* Candidate coordinates newX, newY handed to the clamp, a quarter pixel apart.
ClampCandidates == (0 - px(ClampMargin)) .. px(ContainerSide + ClampMargin)

\* Cumulative scale factors a pinch update may carry.
Factors == { <<1, 3>>, <<3, 1>> }

----------------------------------------------------------------------------
(* The component *)

LayoutEvents == {"containerLayout", "labelLayout"}

PanEvents == {"panTouchesDown", "panStart", "panUpdate", "panEnd", "panFail"}

PinchEvents == {"pinchStart", "pinchUpdate", "pinchEnd"}

ClampEvents == {"clamp", "clampRound"}

TypeOK ==
    /\ canvas \in [width : Int, height : Int]
    /\ textSize \in [width : Int, height : Int]
    /\ canvas.width % 2 = 0 /\ canvas.height % 2 = 0
    /\ textSize.width % 2 = 0 /\ textSize.height % 2 = 0
    /\ translateX \in Int /\ translateY \in Int
    /\ startX \in Int /\ startY \in Int
    /\ scale \in Nat \X Nat /\ startScale \in Nat \X Nat
    /\ isDragging \in BOOLEAN /\ isScaling \in BOOLEAN
    /\ isMeasured \in BOOLEAN
    /\ isCenteredX \in BOOLEAN /\ isCenteredY \in BOOLEAN
    /\ panState \in {"idle", "touching", "active"}
    /\ pinchState \in {"idle", "active"}
    /\ canvasLaidOut \in BOOLEAN
    /\ lastEvent \in {"mount"} \cup LayoutEvents \cup PanEvents \cup PinchEvents
                    \cup ClampEvents

Init ==
    /\ canvas = Size(px(WindowWidth), px(InitCanvasHeight))
    /\ textSize = Size(0, 0)
    /\ translateX = 0 /\ translateY = 0
    /\ startX = 0 /\ startY = 0
    /\ scale = InitScale /\ startScale = InitScale
    /\ isDragging = FALSE /\ isScaling = FALSE
    /\ isMeasured = FALSE
    /\ isCenteredX = FALSE /\ isCenteredY = FALSE
    /\ panState = "idle" /\ pinchState = "idle"
    /\ canvasLaidOut = FALSE
    /\ lastEvent = "mount"

\* centerX, centerY of onUpdate and the target of the auto-center.
Center(containerLen, labelLen) == (containerLen - labelLen) \div 2

\* Mutant: the effect does not test isMeasured.
ShouldCenterAgain(measured, c, t) ==
    /\ c.height # 0 /\ c.width # 0
    /\ t.height # 0 /\ t.width # 0

\* Mutant: the effect does not test the label's size.
ShouldCenterCanvasOnly(measured, c, t) ==
    /\ ~measured
    /\ c.height # 0 /\ c.width # 0

\* The condition of the auto-center effect (0 is the only falsy size).
ShouldCenter(measured, c, t) ==
    /\ ~measured
    /\ c.height # 0 /\ c.width # 0
    /\ t.height # 0 /\ t.width # 0

\* useEffect(..., [canvas, textSize]) run with the sizes c and t.
CenterEffect(c, t) ==
    IF ShouldCenter(isMeasured, c, t)
    THEN /\ isMeasured' = TRUE
         /\ translateX' = Center(c.width, t.width)
         /\ translateY' = Center(c.height, t.height)
    ELSE UNCHANGED <<isMeasured, translateX, translateY>>

\* The container's onLayout: setCanvas, then the effect of the re-render.
ContainerLayout(w, h) ==
    /\ lastEvent' = "containerLayout"
    /\ canvas' = Size(w, h)
    /\ canvasLaidOut' = TRUE
    /\ CenterEffect(Size(w, h), textSize)
    /\ UNCHANGED <<textSize, startX, startY, isDragging, isCenteredX,
                   isCenteredY, panState, pinchState>>
    /\ UNCHANGED pinchVars

\* The label's onLayout: setTextSize, then the effect of the re-render.
LabelLayout(w, h) ==
    /\ lastEvent' = "labelLayout"
    /\ textSize' = Size(w, h)
    /\ CenterEffect(canvas, Size(w, h))
    /\ UNCHANGED <<canvas, canvasLaidOut, startX, startY, isDragging,
                   isCenteredX, isCenteredY, panState, pinchState>>
    /\ UNCHANGED pinchVars

----------------------------------------------------------------------------
(* Pan gesture (drag) *)

\* Math.round(clamp(newX, minX, maxX)) with minX = 0.
ClampRound(new, maxV) == Round(clamp(new, 0, maxV))

\* Mutant: the snap band excludes its edge.
SnapsStrict(c, center) == Abs(c - center) < px(SnapRange)

\* "if (diffX <= 3)": whether the rounded clamped value c snaps to center.
Snaps(c, center) == Abs(c - center) <= px(SnapRange)

\* One axis of onUpdate: the committed position and the centered flag.
AxisUpdate(new, containerLen, labelLen) ==
    LET c == ClampRound(new, containerLen - labelLen)
        center == Center(containerLen, labelLen)
    IN  IF Snaps(c, center)
        THEN [pos |-> center, centered |-> TRUE]
        ELSE [pos |-> c, centered |-> FALSE]

\* withSpring(toValue) assigned to a shared value whose live value is
\* current: the spring runs from current and comes to rest at toValue.
withSpring(current, toValue) == toValue

\* Mutant: the touch-down does not raise isDragging (it is left to onStart).
PanTouchesDownSilent ==
    /\ lastEvent' = "panTouchesDown"
    /\ panState' = IF panState = "idle" THEN "touching" ELSE panState
    /\ UNCHANGED <<translateX, translateY, startX, startY, isCenteredX,
                   isCenteredY, isMeasured, pinchState, isDragging>>
    /\ UNCHANGED pinchVars
    /\ UNCHANGED layoutVars

\* onTouchesDown
PanTouchesDown ==
    /\ lastEvent' = "panTouchesDown"
    /\ panState' = IF panState = "idle" THEN "touching" ELSE panState
    /\ isDragging' = TRUE
    /\ UNCHANGED <<translateX, translateY, startX, startY, isCenteredX,
                   isCenteredY, isMeasured, pinchState>>
    /\ UNCHANGED pinchVars
    /\ UNCHANGED layoutVars

\* onStart: the recognizer activates.
PanStart ==
    /\ lastEvent' = "panStart"
    /\ panState = "touching"
    /\ panState' = "active"
    /\ startX' = translateX
    /\ startY' = translateY
    /\ UNCHANGED <<translateX, translateY, isDragging, isCenteredX,
                   isCenteredY, isMeasured, pinchState>>
    /\ UNCHANGED pinchVars
    /\ UNCHANGED layoutVars

\* Mutant: the translation is added to the live position, not to the
\* position at the start of the drag.
PanUpdateFromLive(tx, ty) ==
    /\ lastEvent' = "panUpdate"
    /\ panState = "active"
    /\ LET ax == AxisUpdate(translateX + tx, canvas.width, textSize.width)
           ay == AxisUpdate(translateY + ty, canvas.height, textSize.height)
       IN  /\ translateX' = ax.pos
           /\ isCenteredX' = ax.centered
           /\ translateY' = ay.pos
           /\ isCenteredY' = ay.centered
    /\ UNCHANGED <<startX, startY, isDragging, isMeasured, panState,
                   pinchState>>
    /\ UNCHANGED pinchVars
    /\ UNCHANGED layoutVars

\* Mutant: the callback keeps the sizes of the first render (a stale
\* closure over canvas and textSize).
PanUpdateStaleSizes(tx, ty) ==
    /\ lastEvent' = "panUpdate"
    /\ panState = "active"
    /\ LET ax == AxisUpdate(startX + tx, px(WindowWidth), 0)
           ay == AxisUpdate(startY + ty, px(InitCanvasHeight), 0)
       IN  /\ translateX' = ax.pos
           /\ isCenteredX' = ax.centered
           /\ translateY' = ay.pos
           /\ isCenteredY' = ay.centered
    /\ UNCHANGED <<startX, startY, isDragging, isMeasured, panState,
                   pinchState>>
    /\ UNCHANGED pinchVars
    /\ UNCHANGED layoutVars

\* onUpdate with e.translationX = tx and e.translationY = ty.
PanUpdate(tx, ty) ==
    /\ lastEvent' = "panUpdate"
    /\ panState = "active"
    /\ LET ax == AxisUpdate(startX + tx, canvas.width, textSize.width)
           ay == AxisUpdate(startY + ty, canvas.height, textSize.height)
       IN  /\ translateX' = ax.pos
           /\ isCenteredX' = ax.centered
           /\ translateY' = ay.pos
           /\ isCenteredY' = ay.centered
    /\ UNCHANGED <<startX, startY, isDragging, isMeasured, panState,
                   pinchState>>
    /\ UNCHANGED pinchVars
    /\ UNCHANGED layoutVars

\* The translations <<e.translationX, e.translationY>> fed to onUpdate.
Translations == { <<p[1] - startX, p[2] - startY>> : p \in TargetPoints }

\* isDragging after onEnd.
DraggingAfterEnd(dragging) == FALSE

\* Mutant: onFinalize does not clear isDragging.
DraggingKept(dragging) == dragging

\* isDragging after onFinalize.
DraggingAfterFinalize(dragging) == FALSE

\* Mutant: the settle animation runs back to the drag's start position.
PanEndSpringsToStart ==
    /\ lastEvent' = "panEnd"
    /\ panState = "active"
    /\ panState' = "idle"
    /\ translateX' = withSpring(translateX, startX)
    /\ translateY' = withSpring(translateY, startY)
    /\ isDragging' = DraggingAfterFinalize(DraggingAfterEnd(isDragging))
    /\ UNCHANGED <<startX, startY, isCenteredX, isCenteredY, isMeasured,
                   pinchState>>
    /\ UNCHANGED pinchVars
    /\ UNCHANGED layoutVars

\* The active gesture ends, is cancelled or fails: onEnd, then onFinalize.
PanEnd ==
    /\ lastEvent' = "panEnd"
    /\ panState = "active"
    /\ panState' = "idle"
    /\ translateX' = withSpring(translateX, translateX)
    /\ translateY' = withSpring(translateY, translateY)
    /\ isDragging' = DraggingAfterFinalize(DraggingAfterEnd(isDragging))
    /\ UNCHANGED <<startX, startY, isCenteredX, isCenteredY, isMeasured,
                   pinchState>>
    /\ UNCHANGED pinchVars
    /\ UNCHANGED layoutVars

\* The touch ends before the recognizer activates: onFinalize alone.
PanFail ==
    /\ lastEvent' = "panFail"
    /\ panState = "touching"
    /\ panState' = "idle"
    /\ isDragging' = DraggingAfterFinalize(isDragging)
    /\ UNCHANGED <<translateX, translateY, startX, startY, isCenteredX,
                   isCenteredY, isMeasured, pinchState>>
    /\ UNCHANGED pinchVars
    /\ UNCHANGED layoutVars

----------------------------------------------------------------------------
(* Pinch gesture (scale) *)

\* Mutant: the upper limit of the scale is not applied.
PinchScaleNoUpper(start, factor) ==
    FracMax(FracMul(start, factor), MinScale)

\* clamp(startScale.value * e.scale, 0.5, 3)
PinchScale(start, factor) ==
    clampFrac(FracMul(start, factor), MinScale, MaxScale)

\* Mutant: the gestures are combined exclusively, the pinch cannot be
\* recognized while a drag is active.
PinchStartExclusive ==
    /\ panState # "active"
    /\ lastEvent' = "pinchStart"
    /\ pinchState = "idle"
    /\ pinchState' = "active"
    /\ isScaling' = TRUE
    /\ startScale' = scale
    /\ UNCHANGED <<scale, isMeasured, panState>>
    /\ UNCHANGED panVars
    /\ UNCHANGED layoutVars

\* onStart, under Gesture.Simultaneous(panGesture, pinchGesture)
PinchStart ==
    /\ lastEvent' = "pinchStart"
    /\ pinchState = "idle"
    /\ pinchState' = "active"
    /\ isScaling' = TRUE
    /\ startScale' = scale
    /\ UNCHANGED <<scale, isMeasured, panState>>
    /\ UNCHANGED panVars
    /\ UNCHANGED layoutVars

\* Mutant: the update multiplies the live scale, not the snapshot.
PinchUpdateIncremental(factor) ==
    /\ lastEvent' = "pinchUpdate"
    /\ pinchState = "active"
    /\ scale' = PinchScale(scale, factor)
    /\ UNCHANGED <<startScale, isScaling, isMeasured, panState, pinchState>>
    /\ UNCHANGED panVars
    /\ UNCHANGED layoutVars

\* onUpdate with e.scale = factor
PinchUpdate(factor) ==
    /\ lastEvent' = "pinchUpdate"
    /\ pinchState = "active"
    /\ scale' = PinchScale(startScale, factor)
    /\ UNCHANGED <<startScale, isScaling, isMeasured, panState, pinchState>>
    /\ UNCHANGED panVars
    /\ UNCHANGED layoutVars

\* isScaling after onEnd.
ScalingAfterEnd(scaling) == FALSE

\* onEnd: the active pinch ends or is cancelled.
PinchEnd ==
    /\ lastEvent' = "pinchEnd"
    /\ pinchState = "active"
    /\ pinchState' = "idle"
    /\ scale' = withSpring(scale, scale)
    /\ isScaling' = ScalingAfterEnd(isScaling)
    /\ UNCHANGED <<startScale, isMeasured, panState>>
    /\ UNCHANGED panVars
    /\ UNCHANGED layoutVars

----------------------------------------------------------------------------
(* Specification *)

PanUpdateSome ==
    \E t \in Translations : PanUpdate(t[1], t[2])

PinchUpdateSome == \E f \in Factors : PinchUpdate(f)

ContainerLayoutSome ==
    \E s \in ContainerSizes : ContainerLayout(s.width, s.height)

LabelLayoutSome ==
    \E s \in LabelSizes : LabelLayout(s.width, s.height)

Next ==
    \/ ContainerLayoutSome
    \/ LabelLayoutSome
    \/ PanTouchesDown
    \/ PanStart
    \/ PanUpdateSome
    \/ PanEnd
    \/ PanFail
    \/ PinchStart
    \/ PinchUpdateSome
    \/ PinchEnd

Spec == Init /\ [][Next]_vars

----------------------------------------------------------------------------
(* The position clamp of onUpdate on its own *)

\* Any measured sizes and any candidate point.
InitClamp ==
    /\ canvas \in ContainerSizes \cup {Size(px(WindowWidth), px(InitCanvasHeight))}
    /\ textSize \in LabelSizes \cup {Size(0, 0)}
    /\ translateX \in ClampCandidates
    /\ translateY \in ClampCandidates
    /\ startX = 0 /\ startY = 0
    /\ scale = InitScale /\ startScale = InitScale
    /\ isDragging = FALSE /\ isScaling = FALSE
    /\ isMeasured = FALSE
    /\ isCenteredX = FALSE /\ isCenteredY = FALSE
    /\ panState = "idle" /\ pinchState = "idle"
    /\ canvasLaidOut = FALSE
    /\ lastEvent = "mount"

\* clamp(newX, minX, maxX) and clamp(newY, minY, maxY) applied to the point.
ClampPoint ==
    /\ lastEvent' = "clamp"
    /\ translateX' = clamp(translateX, 0, canvas.width - textSize.width)
    /\ translateY' = clamp(translateY, 0, canvas.height - textSize.height)
    /\ UNCHANGED <<startX, startY, isDragging, isCenteredX, isCenteredY,
                   isMeasured, panState, pinchState>>
    /\ UNCHANGED pinchVars
    /\ UNCHANGED layoutVars

\* Math.round(clamp(...)) applied to the point, as onUpdate commits it.
ClampRoundPoint ==
    /\ lastEvent' = "clampRound"
    /\ translateX' = ClampRound(translateX, canvas.width - textSize.width)
    /\ translateY' = ClampRound(translateY, canvas.height - textSize.height)
    /\ UNCHANGED <<startX, startY, isDragging, isCenteredX, isCenteredY,
                   isMeasured, panState, pinchState>>
    /\ UNCHANGED pinchVars
    /\ UNCHANGED layoutVars

NextClamp ==
    \/ ClampPoint
    \/ ClampRoundPoint

SpecClamp == InitClamp /\ [][NextClamp]_vars

----------------------------------------------------------------------------
(* Claims *)

MaxPos(containerLen, labelLen) == Max(0, containerLen - labelLen)

InBounds(v, containerLen, labelLen) ==
    0 <= v /\ v <= MaxPos(containerLen, labelLen)

\* C1 as stated: in every reachable state position.x is in
\* [0, max(0, containerWidth - labelWidth)] and position.y is in
\* [0, max(0, containerHeight - labelHeight)] for the latest measured sizes.
C1_PositionInBounds ==
    /\ InBounds(translateX, canvas.width, textSize.width)
    /\ InBounds(translateY, canvas.height, textSize.height)

\* C2: in every reachable state 0.5 <= scale <= 3.0.
C2_ScaleInRange ==
    /\ FracLeq(MinScale, scale)
    /\ FracLeq(scale, MaxScale)

\* A pinch update, during a drag, whose product exceeded 3 and was clamped.
C2_Witness ==
    /\ lastEvent = "pinchUpdate"
    /\ panState = "active"
    /\ scale = MaxScale
    /\ \E f \in Factors : ~FracLeq(FracMul(startScale, f), MaxScale)

\* C3 as stated: isCenteredX implies isDragging and isCenteredY implies
\* isDragging in every reachable state.
C3_CenteredOnlyWhileDragging ==
    /\ isCenteredX => isDragging
    /\ isCenteredY => isDragging

\* C4: whenever the pan recognizer is idle isDragging is false, and whenever
\* the pinch recognizer is idle isPinching is false.
C4_FlagsClearedWhenIdle ==
    /\ panState = "idle" => ~isDragging
    /\ pinchState = "idle" => ~isScaling

\* A drag has just terminated while snapped to the horizontal center.
C4_Witness ==
    /\ lastEvent \in {"panEnd", "panFail"}
    /\ isCenteredX
    /\ panState = "idle"
    /\ ~isDragging

\* What C5 requires of one axis: with c the rounded clamped candidate, the
\* committed position pos and the flag.
SnapsExactly(new, containerLen, labelLen, pos, flag) ==
    LET c == Round(Min(Max(new, 0), containerLen - labelLen))
        center == (containerLen - labelLen) \div 2
    IN  IF Abs(c - center) <= 3 * Unit
        THEN pos = center /\ flag = TRUE
        ELSE pos = c /\ flag = FALSE

C6_AutoCenterOnce ==
    [][ /\ isMeasured => isMeasured'
        /\ (isMeasured /\ lastEvent' \in LayoutEvents)
               => UNCHANGED <<translateX, translateY>> ]_vars

\* The label was measured again after the auto-center and was not centered
\* against its new size.
C6_Witness ==
    /\ isMeasured
    /\ lastEvent = "labelLayout"
    /\ textSize.width # 0 /\ canvas.width # 0
    /\ translateX # Center(canvas.width, textSize.width)

\* C7: a measurement event auto-centers iff hasAutoCentered is false and all
\* four dimensions are non-zero; then position is the center and
\* hasAutoCentered true; otherwise both are unchanged.
C7_AutoCenterIff ==
    [][ lastEvent' \in LayoutEvents =>
            IF /\ ~isMeasured
               /\ canvas'.width # 0 /\ canvas'.height # 0
               /\ textSize'.width # 0 /\ textSize'.height # 0
            THEN /\ isMeasured'
                 /\ translateX' = (canvas'.width - textSize'.width) \div 2
                 /\ translateY' = (canvas'.height - textSize'.height) \div 2
            ELSE UNCHANGED <<isMeasured, translateX, translateY>> ]_vars

\* The container's layout ran last and the label sits at the center of the
\* measured sizes, put there by the auto-center and by no snapping update.
C7_Witness ==
    /\ lastEvent = "containerLayout"
    /\ isMeasured
    /\ canvas.width # 0
    /\ panState = "idle" /\ startX = 0 /\ ~isCenteredX
    /\ translateX = Center(canvas.width, textSize.width)
    /\ translateY = Center(canvas.height, textSize.height)

\* C8 as stated: hasAutoCentered is true only after a containerMeasured
\* event has occurred.
C8_CenteredOnlyAfterContainerMeasured == isMeasured => canvasLaidOut

\* C9: every pan event leaves scale, startScale and isPinching unchanged,
\* every pinch event leaves position, dragStartPosition, isDragging and the
\* centered flags unchanged, and each recognizer's events are enabled by its
\* own state alone.
C9_DisjointWrites ==
    /\ [][ /\ lastEvent' \in PanEvents
               => UNCHANGED <<scale, startScale, isScaling>>
           /\ lastEvent' \in PinchEvents
               => UNCHANGED <<translateX, translateY, startX, startY,
                              isDragging, isCenteredX, isCenteredY>> ]_vars
    /\ [](/\ ENABLED PanTouchesDown
          /\ panState = "touching" => ENABLED PanStart /\ ENABLED PanFail
          /\ panState = "active" => ENABLED PanUpdateSome /\ ENABLED PanEnd
          /\ pinchState = "idle" => ENABLED PinchStart
          /\ pinchState = "active" => ENABLED PinchUpdateSome /\ ENABLED PinchEnd)

\* Both gestures are active, both have moved their value, and a pan event
\* has just run.
C9_Witness ==
    /\ lastEvent = "panUpdate"
    /\ panState = "active" /\ pinchState = "active"
    /\ isScaling
    /\ scale # startScale
    /\ translateX # startX

\* C10: the pan end event leaves position unchanged and clears isDragging
\* in the same step; the pinch end event leaves scale unchanged and clears
\* isPinching in the same step.
C10_EndKeepsValue ==
    [][ /\ lastEvent' = "panEnd"
            => /\ translateX' = translateX
               /\ translateY' = translateY
               /\ ~isDragging'
        /\ lastEvent' = "pinchEnd"
            => /\ scale' = scale
               /\ ~isScaling' ]_vars

\* A drag that moved the label has just ended, after a pinch that changed
\* the scale had ended.
C10_Witness ==
    /\ lastEvent = "panEnd"
    /\ translateX # startX /\ translateX # 0
    /\ ~isDragging
    /\ pinchState = "idle" /\ ~isScaling
    /\ scale # InitScale

\* C11: isDragging is true in every state in which the pan recognizer is
\* touching or active, and isPinching is true in every state in which the
\* pinch recognizer is active.
C11_FlagsSetWhileGesture ==
    /\ panState \in {"touching", "active"} => isDragging
    /\ pinchState = "active" => isScaling

\* A measurement event ran while a touch was down and a pinch was active,
\* and cleared neither flag.
C11_Witness ==
    /\ lastEvent \in LayoutEvents
    /\ panState = "touching" /\ pinchState = "active"
    /\ isDragging /\ isScaling
    /\ isMeasured

\* C12: a point that the position clamp has returned is returned unchanged
\* when it is clamped again against the same sizes, for the clamp alone and
\* for the rounded clamp that onUpdate commits.
C12_ClampIdempotent ==
    /\ lastEvent = "clamp" =>
           /\ clamp(translateX, 0, canvas.width - textSize.width) = translateX
           /\ clamp(translateY, 0, canvas.height - textSize.height) = translateY
    /\ lastEvent = "clampRound" =>
           /\ ClampRound(translateX, canvas.width - textSize.width) = translateX
           /\ ClampRound(translateY, canvas.height - textSize.height)
                  = translateY

\* The rounded clamp has been applied with a label taller than the container
\* and a half-pixel width: x was rounded up past the maximum, y is negative.
C12_Witness ==
    /\ lastEvent = "clampRound"
    /\ textSize.height > canvas.height
    /\ translateY < 0
    /\ textSize.width < canvas.width
    /\ translateX > canvas.width - textSize.width

\* C14 as stated: the value a pan update commits, after clamping, rounding
\* and the optional center snap, has position.x in
\* [0, max(0, containerWidth - labelWidth)] and position.y in
\* [0, max(0, containerHeight - labelHeight)].
C14_UpdateCommitsInBounds ==
    lastEvent = "panUpdate" =>
        /\ InBounds(translateX, canvas.width, textSize.width)
        /\ InBounds(translateY, canvas.height, textSize.height)

\* min(3.0, max(0.5, start * factor))
ClampedProduct(start, factor) ==
    LET p == FracMul(start, factor)
    IN  IF FracLeq(p, MinScale) THEN MinScale
        ELSE IF FracLeq(MaxScale, p) THEN MaxScale
        ELSE p

\* C15: pinch recognition snapshots startScale from the live scale, and
\* each pinch update sets scale = min(3.0, max(0.5, startScale * factor))
\* from that snapshot and the update's factor alone, leaving the snapshot
\* as it was.
C15_PinchFromSnapshot ==
    [][ /\ lastEvent' = "pinchStart" => startScale' = scale
        /\ \A f \in Factors :
               PinchUpdate(f) =>
                   /\ scale' = ClampedProduct(startScale, f)
                   /\ startScale' = startScale ]_vars

\* A pinch recognized at the committed scale 3 has an update with factor
\* 1/3 that commits 3 * 1/3 = 1.
C15_Witness ==
    /\ lastEvent = "pinchUpdate"
    /\ pinchState = "active"
    /\ startScale = MaxScale
    /\ scale = <<1, 1>>

\* C16 as stated: in every reachable state isDragging and isCenteredX
\* together imply position.x = (containerWidth - labelWidth)/2 for the
\* latest measured sizes, and likewise for Y.
C16_GuideMeansCentered ==
    /\ (isDragging /\ isCenteredX)
           => translateX = Center(canvas.width, textSize.width)
    /\ (isDragging /\ isCenteredY)
           => translateY = Center(canvas.height, textSize.height)

\* C17: a measurement event that does not auto-center changes only the
\* stored sizes, and every pan update, also within a drag that was in
\* progress when the sizes changed, clamps and centers against the sizes
\* measured last.
C17_LayoutOnlyChangesBounds ==
    [][ /\ (lastEvent' \in LayoutEvents /\ ~(~isMeasured /\ isMeasured'))
               => UNCHANGED <<translateX, translateY, scale, startX, startY,
                              startScale, isDragging, isScaling, isCenteredX,
                              isCenteredY, isMeasured, panState, pinchState>>
        /\ \A t \in Translations :
               PanUpdate(t[1], t[2]) =>
                   LET maxX == canvas.width - textSize.width
                       maxY == canvas.height - textSize.height
                       cx == Round(Min(Max(startX + t[1], 0), maxX))
                       cy == Round(Min(Max(startY + t[2], 0), maxY))
                   IN  /\ translateX' \in {cx, maxX \div 2}
                       /\ translateY' \in {cy, maxY \div 2}
                       /\ isCenteredX' <=> Abs(cx - maxX \div 2) <= 3 * Unit
                       /\ isCenteredY' <=> Abs(cy - maxY \div 2) <= 3 * Unit
      ]_vars

\* A measurement event ran during an active drag after the auto-center: the
\* position it left is outside the range of the new sizes, and a pan update
\* of that drag will bring it to the center of the new sizes.
C17_Witness ==
    /\ lastEvent \in LayoutEvents
    /\ panState = "active"
    /\ isMeasured
    /\ canvas.width # 0 /\ textSize.width # 0
    /\ ~C1_PositionInBounds
    /\ translateX # Center(canvas.width, textSize.width)
    /\ \E t \in Translations :
           AxisUpdate(startX + t[1], canvas.width, textSize.width).pos
               = Center(canvas.width, textSize.width)

\* The rounded clamped candidate of an axis for the start position, the
\* translation and the sizes.
Candidate(start, translation, containerLen, labelLen) ==
    Round(Min(Max(start + translation, 0), containerLen - labelLen))

\* Whether a rounded clamped candidate is more than 3 pixels from center.
FarFromCenter(c, containerLen, labelLen) ==
    Abs(c - (containerLen - labelLen) \div 2) > 3 * Unit

====
